---- MODULE Spec2Model ----
(***************************************************************************)
(* Model of the screenshot utility: the X11 capture strategy               *)
(* (internal/strategy/x11.go), the Capturer that selects a strategy and    *)
(* writes PNG files (internal/capture), and the command front end          *)
(* (cmd/root.go).                                                          *)
(*                                                                         *)
(* The windowing system, the filesystem and the PNG encoder are outside    *)
(* the repository.  Their answers are inputs of the actions: the list of   *)
(* display bounds the X server reports (displays), whether a rectangle     *)
(* capture succeeds (capOK), and which file operations succeed (io).       *)
(***************************************************************************)
EXTENDS Integers, Sequences, FiniteSets, TLC

(* ------------------------------ bounds -------------------------------- *)

\* Largest number of displays the X server reports.
MaxDisplays == 2

\* Display origins have X in -MaxCoord..MaxCoord.
MaxCoord == 1

\* The -c flag is counted (or set with --compress=N) in -1..MaxCount.
MaxCount == 4

\* A --region argument has at most MaxFields comma separated fields.
MaxFields == 5

(* --------------------- process environment (os) ----------------------- *)

\* DISPLAY is either absent from the environment or holds a string.
Unset == [set |-> FALSE, val |-> ""]

Setenv(v) == [set |-> TRUE, val |-> v]

\* os.Getenv: the value, and "" when the variable is absent.
Getenv(e) == IF e.set THEN e.val ELSE ""

\* The display used when nothing is configured.
DefaultDisplay == ":0"

(* ----------------------------- image ---------------------------------- *)

Pt(x, y) == [X |-> x, Y |-> y]

\* image.Rect: the rectangle with the two corners, swapped where needed so
\* that Min <= Max on both axes.
ImageRect(x0, y0, x1, y1) ==
    [Min |-> Pt(IF x0 > x1 THEN x1 ELSE x0, IF y0 > y1 THEN y1 ELSE y0),
     Max |-> Pt(IF x0 > x1 THEN x0 ELSE x1, IF y0 > y1 THEN y0 ELSE y1)]

(* ------------------- github.com/kbinani/screenshot -------------------- *)

\* The number of displays the X server reports.
NumActiveDisplays(d) == Len(d)

\* The bounds of display i (0-based).
GetDisplayBounds(d, i) == d[i + 1]

\* One rectangle capture: the pixels of rect, or the mechanism's error.
CaptureRect(rect, capOK) ==
    IF capOK
    THEN [status |-> "ok", image |-> <<[Rect |-> rect]>>]
    ELSE [status |-> "capture error", image |-> <<>>]

(* ------------------------- X11Strategy -------------------------------- *)

\* Available: sets DISPLAY to ":0" when it reads as empty (and leaves it
\* so), then reports whether the server has at least one display.
Available(e, d) ==
    [env |-> IF Getenv(e) = "" THEN Setenv(DefaultDisplay) ELSE e,
     ok  |-> NumActiveDisplays(d) > 0]

\* setDisplay: saves the current DISPLAY in s.originalDisplay and sets the
\* new one; restore says whether the returned cleanup restores anything.
setDisplay(e, orig, display) ==
    IF display = ""
    THEN [env |-> e, orig |-> orig, restore |-> FALSE]
    ELSE [env |-> Setenv(display), orig |-> Getenv(e), restore |-> TRUE]

\* A cleanup that writes the saved string back even when it is empty.
cleanupAlwaysSet(orig) == Setenv(orig)

\* The cleanup closure setDisplay returns, run with s.originalDisplay = orig.
cleanup(orig) == IF orig # "" THEN Setenv(orig) ELSE Unset

\* ensureDisplay: the explicit display, else ":0" when DISPLAY reads empty.
ensureDisplay(e, orig, opts) ==
    IF opts.Display # ""
    THEN setDisplay(e, orig, opts.Display)
    ELSE IF Getenv(e) = ""
         THEN setDisplay(e, orig, DefaultDisplay)
         ELSE [env |-> e, orig |-> orig, restore |-> FALSE]

\* The loop of Capture over displays i..n-1, acc the running min/max.
RECURSIVE boundsLoop(_, _, _)
boundsLoop(d, i, acc) ==
    IF i >= NumActiveDisplays(d)
    THEN acc
    ELSE LET b == GetDisplayBounds(d, i)
         IN boundsLoop(d, i + 1,
              [minX |-> IF i = 0 \/ b.Min.X < acc.minX THEN b.Min.X ELSE acc.minX,
               minY |-> IF i = 0 \/ b.Min.Y < acc.minY THEN b.Min.Y ELSE acc.minY,
               maxX |-> IF i = 0 \/ b.Max.X > acc.maxX THEN b.Max.X ELSE acc.maxX,
               maxY |-> IF i = 0 \/ b.Max.Y > acc.maxY THEN b.Max.Y ELSE acc.maxY])

\* The loop without the i = 0 seeding: min and max start from zero.
RECURSIVE boundsLoopUnseeded(_, _, _)
boundsLoopUnseeded(d, i, acc) ==
    IF i >= NumActiveDisplays(d)
    THEN acc
    ELSE LET b == GetDisplayBounds(d, i)
         IN boundsLoopUnseeded(d, i + 1,
              [minX |-> IF b.Min.X < acc.minX THEN b.Min.X ELSE acc.minX,
               minY |-> IF b.Min.Y < acc.minY THEN b.Min.Y ELSE acc.minY,
               maxX |-> IF b.Max.X > acc.maxX THEN b.Max.X ELSE acc.maxX,
               maxY |-> IF b.Max.Y > acc.maxY THEN b.Max.Y ELSE acc.maxY])

ZeroAcc == [minX |-> 0, minY |-> 0, maxX |-> 0, maxY |-> 0]

allBoundsUnseeded(d) ==
    LET a == boundsLoopUnseeded(d, 0, ZeroAcc)
    IN ImageRect(a.minX, a.minY, a.maxX, a.maxY)

\* allBounds of Capture: the combined bounds of all displays.
allBounds(d) ==
    LET a == boundsLoop(d, 0, ZeroAcc)
    IN ImageRect(a.minX, a.minY, a.maxX, a.maxY)

\* A range test that also rejects the last display.
monitorOutOfRangeOffByOne(m, n) == m < 0 \/ m >= n - 1

\* The range test of Capture for one monitor.
monitorOutOfRange(m, n) == m < 0 \/ m >= n

\* What the body of Capture returns and which library calls it makes.
BodyResult(r, rects, enums, range) ==
    [status |-> r.status, image |-> r.image, rectCalls |-> rects,
     enumCalls |-> enums, errRange |-> range]

BodyError(msg, enums, range) ==
    BodyResult([status |-> msg, image |-> <<>>], <<>>, enums, range)

\* A body that counts the displays before it looks at the region.
captureBodyEnumFirst(d, opts, capOK) ==
    LET n == NumActiveDisplays(d)
    IN IF n = 0
       THEN BodyError("no active displays found", 1, <<>>)
       ELSE IF opts.Region # <<>>
       THEN BodyResult(CaptureRect(opts.Region[1], capOK), <<opts.Region[1]>>, 1, <<>>)
       ELSE IF opts.Monitor = -1
       THEN BodyResult(CaptureRect(allBounds(d), capOK), <<allBounds(d)>>, 1, <<>>)
       ELSE IF monitorOutOfRange(opts.Monitor, n)
       THEN BodyError("monitor out of range", 1, <<opts.Monitor, 0, n - 1>>)
       ELSE BodyResult(CaptureRect(GetDisplayBounds(d, opts.Monitor), capOK),
                       <<GetDisplayBounds(d, opts.Monitor)>>, 1, <<>>)

\* The body of Capture, after ensureDisplay and before the cleanup.
captureBody(d, opts, capOK) ==
    IF opts.Region # <<>>
    THEN BodyResult(CaptureRect(opts.Region[1], capOK), <<opts.Region[1]>>, 0, <<>>)
    ELSE LET n == NumActiveDisplays(d)
         IN IF n = 0
            THEN BodyError("no active displays found", 1, <<>>)
            ELSE IF opts.Monitor = -1
            THEN BodyResult(CaptureRect(allBounds(d), capOK), <<allBounds(d)>>, 1, <<>>)
            ELSE IF monitorOutOfRange(opts.Monitor, n)
            THEN BodyError("monitor out of range", 1, <<opts.Monitor, 0, n - 1>>)
            ELSE BodyResult(CaptureRect(GetDisplayBounds(d, opts.Monitor), capOK),
                            <<GetDisplayBounds(d, opts.Monitor)>>, 1, <<>>)

\* X11Strategy.Capture: ensureDisplay, the body, the deferred cleanup.
\* during is the DISPLAY in effect while the body runs.
X11Capture(e, orig, d, opts, capOK) ==
    LET ens == ensureDisplay(e, orig, opts)
    IN [env    |-> IF ens.restore THEN cleanup(ens.orig) ELSE ens.env,
        orig   |-> ens.orig,
        during |-> ens.env,
        body   |-> captureBody(d, opts, capOK)]

\* X11Strategy.ListMonitors: sets DISPLAY to ":0" when it reads empty, then
\* one Monitor per display.
X11ListMonitors(e, d) ==
    LET n == NumActiveDisplays(d)
    IN [env      |-> IF Getenv(e) = "" THEN Setenv(DefaultDisplay) ELSE e,
        status   |-> IF n = 0 THEN "no active displays found" ELSE "ok",
        monitors |-> IF n = 0 THEN <<>>
                     ELSE [i \in 1..n |->
                             [Index  |-> i - 1,
                              Name   |-> <<"Display", i - 1>>,
                              Bounds |-> GetDisplayBounds(d, i - 1)]]]

(* ----------------------------- Capturer ------------------------------- *)

\* A registry that keeps the strategy whatever its availability check said.
newStrategiesUnchecked(ok) == <<"x11">>

\* The strategies New registers: x11 when its Available() said true.
newStrategies(ok) == IF ok THEN <<"x11">> ELSE <<>>

\* New: asks X11Strategy.Available once (which may set DISPLAY) and keeps
\* the answer as the list of strategies.
New(e, d) ==
    LET a == Available(e, d)
    IN [env |-> a.env, ok |-> a.ok, strategies |-> newStrategies(a.ok)]

\* GetStrategy: the first strategy of the list, or an error when it is empty.
GetStrategy(strategies) ==
    IF Len(strategies) = 0
    THEN [err |-> "no screenshot strategy available", strat |-> <<>>]
    ELSE [err |-> "", strat |-> <<strategies[1]>>]

\* Capturer.Capture: GetStrategy, then the strategy's Capture.
CapturerCapture(strategies, e, orig, d, opts, capOK) ==
    LET g == GetStrategy(strategies)
    IN IF g.err # ""
       THEN [env |-> e, orig |-> orig, during |-> e, strat |-> g.strat,
             body |-> BodyError(g.err, 0, <<>>)]
       ELSE [strat |-> g.strat] @@ X11Capture(e, orig, d, opts, capOK)

\* Capturer.ListMonitors: GetStrategy, then the strategy's ListMonitors.
CapturerListMonitors(strategies, e, d) ==
    LET g == GetStrategy(strategies)
    IN IF g.err # ""
       THEN [env |-> e, status |-> g.err, monitors |-> <<>>]
       ELSE X11ListMonitors(e, d)

(* ----------------------- encode/output pipeline ----------------------- *)

\* intToCompressionLevel, by the names of png's compression levels.
intToCompressionLevel(level) ==
    CASE level = 0 -> "NoCompression"
      [] level = 1 -> "BestSpeed"
      [] level = 2 -> "DefaultCompression"
      [] level = 3 -> "BestCompression"
      [] OTHER     -> "BestSpeed"

\* A path is the sequence of its components; filepath.Dir drops the last
\* one and answers "." when nothing is left.
Dir(path) ==
    IF Len(path) <= 1 THEN <<".">> ELSE SubSeq(path, 1, Len(path) - 1)

Step(name, ok) == [name |-> name, ok |-> ok]

PipeResult(err, steps, png) == [err |-> err, steps |-> steps, pngLevel |-> png]

\* SavePNG: MkdirAll when the path has a directory, Create, the deferred
\* Close, Encode.  io says which of the four succeed.  The deferred Close
\* runs on every return after Create succeeded; what it returns is dropped.
SavePNG(path, compressionLevel, io) ==
    LET dir     == Dir(path)
        mkdir   == dir # <<>> /\ dir # <<".">>
        pre     == IF mkdir THEN <<Step("MkdirAll", io.mkdir)>> ELSE <<>>
        png     == <<intToCompressionLevel(compressionLevel)>>
        closing == <<Step("Close", io.close)>>
    IN IF mkdir /\ ~io.mkdir
       THEN PipeResult("failed to create directory", pre, <<>>)
       ELSE IF ~io.create
       THEN PipeResult("failed to create file",
                       pre \o <<Step("Create", FALSE)>>, <<>>)
       ELSE IF ~io.encode
       THEN PipeResult("failed to encode PNG",
                       pre \o <<Step("Create", TRUE), Step("Encode", FALSE)>>
                           \o closing, png)
       ELSE PipeResult("",
                       pre \o <<Step("Create", TRUE), Step("Encode", TRUE)>>
                           \o closing, png)

\* WritePNG: Encode to a writer the caller owns.
WritePNG(compressionLevel, io) ==
    LET png == <<intToCompressionLevel(compressionLevel)>>
    IN IF ~io.encode
       THEN PipeResult("failed to encode PNG", <<Step("Encode", FALSE)>>, png)
       ELSE PipeResult("", <<Step("Encode", TRUE)>>, png)

\* Capturer.CaptureToFile: GetStrategy, Capture, SavePNG.
CaptureToFile(strategies, e, orig, d, opts, outputPath, compressionLevel, capOK, io) ==
    LET g == GetStrategy(strategies)
        c == X11Capture(e, orig, d, opts, capOK)
        w == SavePNG(outputPath, compressionLevel, io)
    IN IF g.err # ""
       THEN [env |-> e, orig |-> orig, body |-> BodyError(g.err, 0, <<>>),
             err |-> g.err, pngLevel |-> <<>>,
             steps |-> <<Step("GetStrategy", FALSE)>>]
       ELSE IF c.body.status # "ok"
       THEN [env |-> c.env, orig |-> c.orig, body |-> c.body,
             err |-> "capture failed", pngLevel |-> <<>>,
             steps |-> <<Step("GetStrategy", TRUE), Step("Capture", FALSE)>>]
       ELSE [env |-> c.env, orig |-> c.orig, body |-> c.body,
             err |-> w.err, pngLevel |-> w.pngLevel,
             steps |-> <<Step("GetStrategy", TRUE), Step("Capture", TRUE)>>
                           \o w.steps]

(* ------------------------------ command ------------------------------- *)

\* A string the command parses is the sequence of its characters.
Digits == {"0", "1", "2", "3", "4", "5", "6", "7", "8", "9"}

DigitValue(c) ==
    CASE c = "0" -> 0 [] c = "1" -> 1 [] c = "2" -> 2 [] c = "3" -> 3
      [] c = "4" -> 4 [] c = "5" -> 5 [] c = "6" -> 6 [] c = "7" -> 7
      [] c = "8" -> 8 [] c = "9" -> 9

\* strings.Split(s, sep): the pieces between the separators, one piece
\* when there is none.
RECURSIVE Split(_, _)
Split(s, sep) ==
    IF \A i \in 1..Len(s) : s[i] # sep
    THEN <<s>>
    ELSE LET i == CHOOSE k \in 1..Len(s) :
                      s[k] = sep /\ \A j \in 1..(k - 1) : s[j] # sep
         IN <<SubSeq(s, 1, i - 1)>> \o Split(SubSeq(s, i + 1, Len(s)), sep)

\* strings.TrimSpace: without the leading and trailing white space.
RECURSIVE TrimSpace(_)
TrimSpace(s) ==
    IF Len(s) > 0 /\ s[1] \in {" ", "\t"} THEN TrimSpace(Tail(s))
    ELSE IF Len(s) > 0 /\ s[Len(s)] \in {" ", "\t"}
    THEN TrimSpace(SubSeq(s, 1, Len(s) - 1))
    ELSE s

RECURSIVE DecimalValue(_)
DecimalValue(ds) ==
    IF Len(ds) = 0 THEN 0
    ELSE 10 * DecimalValue(SubSeq(ds, 1, Len(ds) - 1)) + DigitValue(ds[Len(ds)])

\* strconv.Atoi: an optional sign and at least one decimal digit.
Atoi(s) ==
    LET signed == Len(s) > 0 /\ s[1] \in {"+", "-"}
        ds     == IF signed THEN Tail(s) ELSE s
        ok     == Len(ds) > 0 /\ \A i \in 1..Len(ds) : ds[i] \in Digits
    IN [ok  |-> ok,
        val |-> IF ~ok THEN 0
                ELSE IF signed /\ s[1] = "-" THEN 0 - DecimalValue(ds)
                ELSE DecimalValue(ds)]

\* parseRegion: four comma separated integers x,y,width,height.
parseRegion(s) ==
    LET parts == Split(s, ",")
        vals  == [i \in 1..Len(parts) |-> Atoi(TrimSpace(parts[i]))]
    IN IF Len(parts) # 4
       THEN [err |-> "expected x,y,width,height", rect |-> <<>>]
       ELSE IF \E i \in 1..4 : ~vals[i].ok
       THEN [err |-> "invalid number", rect |-> <<>>]
       ELSE LET x == vals[1].val
                y == vals[2].val
                w == vals[3].val
                h == vals[4].val
            IN [err |-> "", rect |-> <<ImageRect(x, y, x + w, y + h)>>]

\* A level taken from the count as it is, without the cap at three.
getCompressionLevelUncapped(raw, compressLevel) ==
    IF raw THEN 0
    ELSE IF compressLevel = 0 THEN 1
    ELSE compressLevel

\* getCompressionLevel: the numeric level for the flags -r and -c.
getCompressionLevel(raw, compressLevel) ==
    IF raw THEN 0
    ELSE IF compressLevel = 0 THEN 1
    ELSE IF compressLevel >= 3 THEN 3
    ELSE compressLevel

\* capture.GenerateFilename: prefix, time stamp, ".png"; no directory.
GenerateFilename(prefix) == <<prefix \o "_TIMESTAMP.png">>

\* core is the region run hands to the Capturer, when it gets that far.
RunResult(e, orig, c, err, level, core, rects, steps, png, mons) ==
    [env |-> e, orig |-> orig, strategies |-> c.strategies, availAtNew |-> c.ok,
     err |-> err, level |-> level, coreRegion |-> core, rectCalls |-> rects,
     steps |-> steps, pngLevel |-> png, monitors |-> mons]

\* run: New, then --list, or the capture to stdout or to a file and the
\* viewer.  flags are the parsed command line flags and arguments.
run(flags, e, orig, d, capOK, io) ==
    LET c     == New(e, d)
        path0 == IF Len(flags.args) > 0 THEN flags.args[1] ELSE flags.output
        outputPath == IF path0 = <<>> THEN GenerateFilename("screenshot") ELSE path0
        pr    == parseRegion(flags.region)
        opts  == [Monitor |-> flags.monitor, Display |-> flags.display,
                  Region  |-> IF flags.region # <<>> THEN pr.rect ELSE <<>>]
        level == getCompressionLevel(flags.raw, flags.compressLevel)
        lm    == CapturerListMonitors(c.strategies, c.env, d)
        cap   == CapturerCapture(c.strategies, c.env, orig, d, opts, capOK)
        wr    == WritePNG(level, io)
        ctf   == CaptureToFile(c.strategies, c.env, orig, d, opts, outputPath,
                               level, capOK, io)
    IN IF flags.listMon
       THEN RunResult(lm.env, orig, c, IF lm.status = "ok" THEN "" ELSE lm.status,
                      <<>>, <<>>, <<>>, <<>>, <<>>, lm.monitors)
       ELSE IF flags.region # <<>> /\ pr.err # ""
       THEN RunResult(c.env, orig, c, "invalid region", <<>>, <<>>, <<>>, <<>>,
                      <<>>, <<>>)
       ELSE IF flags.stdout
       THEN IF cap.body.status # "ok"
            THEN RunResult(cap.env, cap.orig, c, "capture failed", <<level>>,
                           opts.Region, cap.body.rectCalls, <<>>, <<>>, <<>>)
            ELSE RunResult(cap.env, cap.orig, c, wr.err, <<level>>,
                           opts.Region, cap.body.rectCalls, wr.steps, wr.pngLevel, <<>>)
       ELSE IF ctf.err # ""
       THEN RunResult(ctf.env, ctf.orig, c, ctf.err, <<level>>,
                      opts.Region, ctf.body.rectCalls, ctf.steps, ctf.pngLevel, <<>>)
       ELSE IF flags.view /\ ~io.start
       THEN RunResult(ctf.env, ctf.orig, c, "failed to open viewer", <<level>>,
                      opts.Region, ctf.body.rectCalls,
                      ctf.steps \o <<Step("openFile", FALSE)>>, ctf.pngLevel, <<>>)
       ELSE RunResult(ctf.env, ctf.orig, c, "", <<level>>, opts.Region,
                      ctf.body.rectCalls,
                      IF flags.view
                      THEN ctf.steps \o <<Step("openFile", TRUE)>>
                      ELSE ctf.steps,
                      ctf.pngLevel, <<>>)

(* ------------------------------- state -------------------------------- *)

VARIABLES
    env,              \* DISPLAY in the process environment
    originalDisplay,  \* X11Strategy.originalDisplay
    displays,         \* the display bounds the X server reports now
    capturer,         \* the Capturer: whether New ran, and its strategies
    availAtNew,       \* what Available() answered inside New
    last,             \* the last completed library call: inputs and result
    file,             \* the last CaptureToFile call: its steps and result
    cli,              \* one run of the command: flags and outcome
    gor,              \* goroutines inside X11Strategy.Capture
    env0              \* DISPLAY before any goroutine started

vars == <<env, originalDisplay, displays, capturer, availAtNew, last, file, cli,
          gor, env0>>

(* ------------------------------ inputs -------------------------------- *)

SeqsUpTo(S, n) == UNION {[1..k -> S] : k \in 0..n}

XOrigins == -MaxCoord..MaxCoord

YOrigins == {-1, 0}

Widths == {1, 2}

Heights == {1}

\* The bounds a display can have: origin (x, y), size (w, h).
DisplayRects ==
    {ImageRect(x, y, x + w, y + h) :
        x \in XOrigins, y \in YOrigins, w \in Widths, h \in Heights}

\* Two monitors side by side, 1920x1080 each.
ExampleDisplays == <<ImageRect(0, 0, 1920, 1080), ImageRect(1920, 0, 3840, 1080)>>

DisplayLists == SeqsUpTo(DisplayRects, MaxDisplays) \cup {ExampleDisplays}

SampleRects == {ImageRect(0, 0, 1, 1)}

SampleDisplays == SeqsUpTo(SampleRects, MaxDisplays)

SampleRegion == ImageRect(0, 0, 2, 2)

DisplayNames == {":0", ":1"}

\* DISPLAY absent, or naming a display.
NamedOrUnset == {Unset} \cup {Setenv(v) : v \in DisplayNames}

\* DISPLAY as a process can inherit it: absent, naming a display, or
\* present with the empty string (which names no display).
EnvValues == NamedOrUnset \cup {Setenv("")}

MonitorInputs == (-2..MaxDisplays) \cup {5}

NoOpts == [Monitor |-> -1, Region |-> <<>>, Display |-> ""]

OptsInputs ==
    [Monitor : {-1, 0}, Region : {<<>>, <<SampleRegion>>},
     Display : {""} \cup DisplayNames]

NoCall ==
    [op |-> "none", opts |-> NoOpts, capOK |-> FALSE, envBefore |-> Unset,
     envDuring |-> Unset, displaysAt |-> <<>>, status |-> "", image |-> <<>>,
     rectCalls |-> <<>>, enumCalls |-> 0, errRange |-> <<>>, monitors |-> <<>>,
     strategy |-> <<>>]

NoFile ==
    [op |-> "none", opts |-> NoOpts, path |-> <<>>, level |-> 0, capOK |-> FALSE,
     io |-> [mkdir |-> TRUE, create |-> TRUE, encode |-> TRUE, close |-> TRUE],
     err |-> "", steps |-> <<>>, pngLevel |-> <<>>, rectCalls |-> <<>>]

NoGor == <<>>

NoCli ==
    [phase |-> "unused", flags |-> <<>>, fields |-> <<>>, capOK |-> FALSE,
     io |-> <<>>, err |-> "", level |-> <<>>, coreRegion |-> <<>>,
     rectCalls |-> <<>>, steps |-> <<>>, pngLevel |-> <<>>, monitors |-> <<>>]

(* ----------------------- library calls, one by one -------------------- *)

libIdle == UNCHANGED <<file, cli, gor, env0>>

\* X11Strategy.Available()
DoAvailable ==
    LET a == Available(env, displays)
    IN /\ env' = a.env
       /\ last' = [NoCall EXCEPT !.op = "Available", !.envBefore = env,
                                 !.displaysAt = displays,
                                 !.status = IF a.ok THEN "true" ELSE "false"]
       /\ UNCHANGED <<originalDisplay, displays, capturer, availAtNew>>
       /\ libIdle

CallRecord(op, opts, capOK, r, strat) ==
    [NoCall EXCEPT !.op = op, !.opts = opts, !.capOK = capOK,
                   !.envBefore = env, !.envDuring = r.during,
                   !.displaysAt = displays, !.status = r.body.status,
                   !.image = r.body.image, !.rectCalls = r.body.rectCalls,
                   !.enumCalls = r.body.enumCalls, !.errRange = r.body.errRange,
                   !.strategy = strat]

\* X11Strategy.Capture(opts)
DoCapture(opts, capOK) ==
    LET r == X11Capture(env, originalDisplay, displays, opts, capOK)
    IN /\ env' = r.env
       /\ originalDisplay' = r.orig
       /\ last' = CallRecord("Capture", opts, capOK, r, <<"x11">>)
       /\ UNCHANGED <<displays, capturer, availAtNew>>
       /\ libIdle

\* X11Strategy.ListMonitors()
DoListMonitors ==
    LET r == X11ListMonitors(env, displays)
    IN /\ env' = r.env
       /\ last' = [NoCall EXCEPT !.op = "ListMonitors", !.envBefore = env,
                                 !.displaysAt = displays, !.status = r.status,
                                 !.monitors = r.monitors, !.enumCalls = 1]
       /\ UNCHANGED <<originalDisplay, displays, capturer, availAtNew>>
       /\ libIdle

\* capture.New()
DoNew ==
    LET c == New(env, displays)
    IN /\ ~capturer.made
       /\ env' = c.env
       /\ capturer' = [made |-> TRUE, strategies |-> c.strategies]
       /\ availAtNew' = c.ok
       /\ last' = [NoCall EXCEPT !.op = "New", !.envBefore = env,
                                 !.displaysAt = displays, !.enumCalls = 1,
                                 !.strategy = c.strategies]
       /\ UNCHANGED <<originalDisplay, displays>>
       /\ libIdle

\* Capturer.GetStrategy()
DoGetStrategy ==
    LET g == GetStrategy(capturer.strategies)
    IN /\ capturer.made
       /\ last' = [NoCall EXCEPT !.op = "GetStrategy", !.envBefore = env,
                                 !.displaysAt = displays,
                                 !.status = IF g.err = "" THEN "ok" ELSE g.err,
                                 !.strategy = g.strat]
       /\ UNCHANGED <<env, originalDisplay, displays, capturer, availAtNew>>
       /\ libIdle

\* Capturer.Capture(opts)
DoCapturerCapture(opts, capOK) ==
    LET r == CapturerCapture(capturer.strategies, env, originalDisplay,
                             displays, opts, capOK)
    IN /\ capturer.made
       /\ env' = r.env
       /\ originalDisplay' = r.orig
       /\ last' = CallRecord("CapturerCapture", opts, capOK, r, r.strat)
       /\ UNCHANGED <<displays, capturer, availAtNew>>
       /\ libIdle

\* Capturer.ListMonitors()
DoCapturerListMonitors ==
    LET r == CapturerListMonitors(capturer.strategies, env, displays)
    IN /\ capturer.made
       /\ env' = r.env
       /\ last' = [NoCall EXCEPT !.op = "CapturerListMonitors",
                                 !.envBefore = env, !.displaysAt = displays,
                                 !.status = r.status, !.monitors = r.monitors,
                                 !.strategy = capturer.strategies]
       /\ UNCHANGED <<originalDisplay, displays, capturer, availAtNew>>
       /\ libIdle

\* The X server gains or loses displays between two calls.
Hotplug ==
    /\ \E d \in SampleDisplays : d # displays /\ displays' = d
    /\ UNCHANGED <<env, originalDisplay, capturer, availAtNew, last>>
    /\ libIdle

Init ==
    /\ env \in EnvValues
    /\ originalDisplay = ""
    /\ displays \in SampleDisplays
    /\ capturer = [made |-> FALSE, strategies |-> <<>>]
    /\ availAtNew = FALSE
    /\ last = NoCall
    /\ file = NoFile
    /\ cli = NoCli
    /\ gor = NoGor
    /\ env0 = Unset

Next ==
    \/ DoAvailable
    \/ \E o \in OptsInputs, ok \in BOOLEAN : DoCapture(o, ok)
    \/ DoListMonitors
    \/ DoNew
    \/ DoGetStrategy
    \/ \E o \in OptsInputs, ok \in BOOLEAN : DoCapturerCapture(o, ok)
    \/ DoCapturerListMonitors
    \/ Hotplug

\* Calls on one strategy and one Capturer, one after the other.
Spec == Init /\ [][Next]_vars

(* --------------- geometry: Capture over every display list ------------ *)

InitGeom ==
    /\ env = Setenv(DefaultDisplay)
    /\ originalDisplay = ""
    /\ displays \in DisplayLists
    /\ capturer = [made |-> FALSE, strategies |-> <<>>]
    /\ availAtNew = FALSE
    /\ last = NoCall
    /\ file = NoFile
    /\ cli = NoCli
    /\ gor = NoGor
    /\ env0 = Unset

NextGeom ==
    \E m \in MonitorInputs, ok \in BOOLEAN :
        DoCapture([NoOpts EXCEPT !.Monitor = m], ok)

\* Capture without a region, for every monitor index and display list.
SpecGeom == InitGeom /\ [][NextGeom]_vars

(* ------------------- capture to file, with failures ------------------- *)

IoInputs == [mkdir : BOOLEAN, create : BOOLEAN, encode : BOOLEAN, close : BOOLEAN]

PathInputs == {<<"shot.png">>, <<"out", "shot.png">>}

\* Capturer.CaptureToFile(opts, outputPath, compressionLevel)
DoCaptureToFile(opts, path, level, capOK, io) ==
    LET r == CaptureToFile(capturer.strategies, env, originalDisplay, displays,
                           opts, path, level, capOK, io)
    IN /\ capturer.made
       /\ env' = r.env
       /\ originalDisplay' = r.orig
       /\ file' = [op |-> "CaptureToFile", opts |-> opts, path |-> path,
                   level |-> level, capOK |-> capOK, io |-> io,
                   err |-> r.err, steps |-> r.steps, pngLevel |-> r.pngLevel,
                   rectCalls |-> r.body.rectCalls]
       /\ UNCHANGED <<displays, capturer, availAtNew, last, cli, gor, env0>>

NextFile ==
    \/ DoNew
    \/ \E p \in PathInputs, ok \in BOOLEAN, io \in IoInputs :
           DoCaptureToFile(NoOpts, p, 1, ok, io)
    \/ Hotplug

\* One Capturer writing screenshots to files while file operations may fail.
SpecFile == Init /\ [][NextFile]_vars

(* ------------- two goroutines inside X11Strategy.Capture -------------- *)

\* The goroutines share the process environment (env) and the strategy's
\* field (originalDisplay).  Nothing in Capture, ensureDisplay or setDisplay
\* takes a lock, so their statements interleave; each statement that reads
\* or writes the environment or the field is one step.

Goroutines == {1, 2}

IdleGor == [pc |-> "idle", display |-> "", target |-> "", tmp |-> "", restore |-> FALSE]

concIdle == UNCHANGED <<displays, capturer, availAtNew, last, file, cli, env0>>

\* The goroutine calls Capture with opts.Display = display.
Call(g, display) ==
    /\ gor[g].pc = "idle"
    /\ gor' = [gor EXCEPT ![g].pc = "ensure", ![g].display = display]
    /\ UNCHANGED <<env, originalDisplay>>
    /\ concIdle

\* ensureDisplay chooses the display to set, or that nothing is to be set.
Ensure(g) ==
    /\ gor[g].pc = "ensure"
    /\ gor' = IF gor[g].display # ""
              THEN [gor EXCEPT ![g].pc = "save", ![g].target = gor[g].display]
              ELSE IF Getenv(env) = ""
              THEN [gor EXCEPT ![g].pc = "save", ![g].target = DefaultDisplay]
              ELSE [gor EXCEPT ![g].pc = "body"]
    /\ UNCHANGED <<env, originalDisplay>>
    /\ concIdle

\* setDisplay evaluates os.Getenv("DISPLAY") ...
Save(g) ==
    /\ gor[g].pc = "save"
    /\ gor' = [gor EXCEPT ![g].pc = "store", ![g].tmp = Getenv(env)]
    /\ UNCHANGED <<env, originalDisplay>>
    /\ concIdle

\* ... and stores it in s.originalDisplay.
Store(g) ==
    /\ gor[g].pc = "store"
    /\ originalDisplay' = gor[g].tmp
    /\ gor' = [gor EXCEPT ![g].pc = "set"]
    /\ UNCHANGED env
    /\ concIdle

\* setDisplay sets DISPLAY and returns the restoring cleanup.
Set(g) ==
    /\ gor[g].pc = "set"
    /\ env' = Setenv(gor[g].target)
    /\ gor' = [gor EXCEPT ![g].pc = "body", ![g].restore = TRUE]
    /\ UNCHANGED originalDisplay
    /\ concIdle

\* The body of Capture: the screenshot calls, which change nothing shared.
Body(g) ==
    /\ gor[g].pc = "body"
    /\ gor' = [gor EXCEPT ![g].pc = "clean"]
    /\ UNCHANGED <<env, originalDisplay>>
    /\ concIdle

\* The deferred cleanup, reading s.originalDisplay as it is now.
Clean(g) ==
    /\ gor[g].pc = "clean"
    /\ env' = IF gor[g].restore THEN cleanup(originalDisplay) ELSE env
    /\ gor' = [gor EXCEPT ![g].pc = "done"]
    /\ UNCHANGED originalDisplay
    /\ concIdle

InitConc ==
    /\ env \in NamedOrUnset
    /\ env0 = env
    /\ originalDisplay = ""
    /\ displays \in SampleDisplays
    /\ capturer = [made |-> FALSE, strategies |-> <<>>]
    /\ availAtNew = FALSE
    /\ last = NoCall
    /\ file = NoFile
    /\ cli = NoCli
    /\ gor = [g \in Goroutines |-> IdleGor]

NextConc ==
    \E g \in Goroutines :
        \/ \E d \in {"", ":1", ":2"} : Call(g, d)
        \/ Ensure(g)
        \/ Save(g)
        \/ Store(g)
        \/ Set(g)
        \/ Body(g)
        \/ Clean(g)

\* Two Capture calls on the same strategy, interleaved statement by statement.
SpecConc == InitConc /\ [][NextConc]_vars

(* ------------------------ one run of the command ---------------------- *)

\* A field of a --region argument: its text and, when the text is a
\* number, the number.
Field(text, num) == [text |-> text, num |-> num]

FieldInputs ==
    {Field(<<"2">>, <<2>>), Field(<<" ", "0", " ">>, <<0>>),
     Field(<<"-", "1">>, <<-1>>), Field(<<"x">>, <<>>)}

FieldLists == UNION {[1..k -> FieldInputs] : k \in 3..MaxFields}

\* The fields with commas between them.
RECURSIVE JoinFields(_)
JoinFields(fs) ==
    IF Len(fs) = 1 THEN fs[1].text
    ELSE fs[1].text \o <<",">> \o JoinFields(Tail(fs))

DefaultFlags ==
    [monitor |-> -1, region |-> <<>>, output |-> <<>>, display |-> "",
     listMon |-> FALSE, compressLevel |-> 0, raw |-> FALSE, view |-> FALSE,
     stdout |-> FALSE, args |-> <<>>]

AllOk ==
    [mkdir |-> TRUE, create |-> TRUE, encode |-> TRUE, close |-> TRUE,
     start |-> TRUE]

CountInputs == -1..MaxCount

CliRecord(phase, flags, fields, capOK, io, r) ==
    [phase |-> phase, flags |-> flags, fields |-> fields, capOK |-> capOK,
     io |-> io, err |-> r.err, level |-> r.level,
     coreRegion |-> r.coreRegion, rectCalls |-> r.rectCalls,
     steps |-> r.steps, pngLevel |-> r.pngLevel, monitors |-> r.monitors]

NoResult ==
    [err |-> "", level |-> <<>>, coreRegion |-> <<>>, rectCalls |-> <<>>,
     steps |-> <<>>, pngLevel |-> <<>>, monitors |-> <<>>]

\* The process runs the command once: run(cmd, args).  fields are the
\* fields the --region text was written from.
DoRun(flags, fields, capOK, io) ==
    LET r == run(flags, env, originalDisplay, displays, capOK, io)
    IN /\ cli.phase = "start"
       /\ env' = r.env
       /\ originalDisplay' = r.orig
       /\ capturer' = [made |-> TRUE, strategies |-> r.strategies]
       /\ availAtNew' = r.availAtNew
       /\ cli' = CliRecord("exited", flags, fields, capOK, io, r)
       /\ UNCHANGED <<displays, last, file, gor, env0>>

InitCli ==
    /\ env \in EnvValues
    /\ originalDisplay = ""
    /\ displays \in SampleDisplays
    /\ capturer = [made |-> FALSE, strategies |-> <<>>]
    /\ availAtNew = FALSE
    /\ last = NoCall
    /\ file = NoFile
    /\ cli = CliRecord("start", DefaultFlags, <<>>, FALSE, AllOk, NoResult)
    /\ gor = NoGor
    /\ env0 = Unset

\* A run with --region.
RunRegion ==
    \E fs \in FieldLists :
        DoRun([DefaultFlags EXCEPT !.region = JoinFields(fs)], fs, TRUE, AllOk)

\* A run with -r and -c flags, to a file or to stdout.
RunLevel ==
    \E r \in BOOLEAN, n \in CountInputs, so \in BOOLEAN, ok \in BOOLEAN,
       enc \in BOOLEAN :
        DoRun([DefaultFlags EXCEPT !.raw = r, !.compressLevel = n, !.stdout = so],
              <<>>, ok, [AllOk EXCEPT !.encode = enc])

\* A run with the other flags: --list, -m, -d, -o, the argument, -v.
RunOther ==
    \E l \in BOOLEAN, m \in {-1, 0, 5}, dn \in {"", ":1"},
       o \in {<<>>, <<"out", "shot.png">>}, a \in {<<>>, <<<<"arg.png">>>>},
       v \in BOOLEAN, st \in BOOLEAN :
        DoRun([DefaultFlags EXCEPT !.listMon = l, !.monitor = m, !.display = dn,
                                   !.output = o, !.args = a, !.view = v],
              <<>>, TRUE, [AllOk EXCEPT !.start = st])

NextCli == RunRegion \/ RunLevel \/ RunOther

\* One process: the environment it starts in, then one run of the command.
SpecCli == InitCli /\ [][NextCli]_vars

(* ------------------------------ claims -------------------------------- *)

IsCapture == last.op \in {"Capture", "CapturerCapture"}

IsListMonitors == last.op \in {"ListMonitors", "CapturerListMonitors"}

\* The DISPLAY a Capture call runs under: the override, else ":0" when
\* nothing is configured, else the configured one.
ExpectedDuring(before, opts) ==
    IF opts.Display # "" THEN Setenv(opts.Display)
    ELSE IF Getenv(before) = "" THEN Setenv(":0")
    ELSE before

\* C1: after every Capture call, with or without a display override and
\* whether it succeeded or failed, DISPLAY is what it was immediately
\* before the call: a DISPLAY that named a display names the same one, an
\* absent DISPLAY is absent again; while the call ran DISPLAY was the
\* override, or ":0" when nothing was configured.  (A DISPLAY present
\* with the empty string names no display: it reads as "", as an absent
\* one does, before and after, and the cleanup leaves it absent.)
CaptureRestoresDisplay ==
    IsCapture =>
        /\ Getenv(env) = Getenv(last.envBefore)
        /\ last.envBefore # Setenv("") => env = last.envBefore
        /\ last.strategy # <<>> =>
               last.envDuring = ExpectedDuring(last.envBefore, last.opts)

\* C1 witness: a failed Capture that started with DISPLAY absent, ran under
\* an explicit override, and left DISPLAY absent again.
CaptureRestoresDisplayWitness ==
    /\ last.op = "Capture"
    /\ ~last.envBefore.set
    /\ last.opts.Display = ":1"
    /\ last.envDuring = Setenv(":1")
    /\ last.status # "ok"
    /\ env = Unset

\* C3: after ListMonitors returns, DISPLAY is what it was before the call:
\* absent again when the call applied the ":0" fallback, unchanged when a
\* display was configured.
ListMonitorsRestoresDisplay == IsListMonitors => env = last.envBefore

\* C4 as claimed: GetStrategy returns x11 exactly when x11's availability
\* check would succeed at the moment of the call, and fails otherwise.
ActiveStrategyIsAvailableNow ==
    last.op = "GetStrategy" =>
        IF Available(last.envBefore, last.displaysAt).ok
        THEN last.strategy = <<"x11">> /\ last.status = "ok"
        ELSE last.strategy = <<>>
             /\ last.status = "no screenshot strategy available"

\* C4 as amended: GetStrategy returns the first registered strategy whose
\* availability check succeeded when the Capturer was built, and fails
\* when none did, whatever the displays have done since.
ActiveStrategyWasAvailableAtNew ==
    last.op = "GetStrategy" =>
        IF availAtNew
        THEN last.strategy = <<"x11">> /\ last.status = "ok"
        ELSE last.strategy = <<>>
             /\ last.status = "no screenshot strategy available"

\* C4 witness: GetStrategy returned x11 although no display is left.
ActiveStrategyWitness ==
    /\ last.op = "GetStrategy"
    /\ last.strategy = <<"x11">>
    /\ availAtNew
    /\ NumActiveDisplays(last.displaysAt) = 0

\* C5 as claimed: a capture with a region succeeds with exactly that
\* rectangle whenever the rectangle capture itself succeeds, whatever the
\* display enumeration reports anywhere on the call path.
RegionCaptureNeverNeedsDisplays ==
    (IsCapture /\ last.opts.Region # <<>> /\ last.capOK) =>
        /\ last.status = "ok"
        /\ last.image = <<[Rect |-> last.opts.Region[1]]>>

\* C5 as amended: with a strategy selected, a capture with a region makes
\* no enumeration call and exactly one rectangle capture, of the requested
\* rectangle, and returns it when that capture succeeds, for every monitor
\* index and display list; the Capturer has no strategy exactly when no
\* display was reported while it was built, and the call then fails with
\* "no screenshot strategy available" without any capture.
RegionCaptureSkipsEnumeration ==
    (IsCapture /\ last.opts.Region # <<>>) =>
        IF last.strategy = <<>>
        THEN /\ last.op = "CapturerCapture"
             /\ ~availAtNew
             /\ last.status = "no screenshot strategy available"
             /\ last.rectCalls = <<>>
             /\ last.enumCalls = 0
        ELSE /\ last.op = "CapturerCapture" => availAtNew
             /\ last.enumCalls = 0
             /\ last.rectCalls = <<last.opts.Region[1]>>
             /\ last.status = IF last.capOK THEN "ok" ELSE "capture error"
             /\ last.image = IF last.capOK
                             THEN <<[Rect |-> last.opts.Region[1]]>>
                             ELSE <<>>

\* C5 witness: a region capture through the Capturer succeeded while the
\* X server reported no display at all.
RegionCaptureWitness ==
    /\ last.op = "CapturerCapture"
    /\ last.opts.Region # <<>>
    /\ NumActiveDisplays(last.displaysAt) = 0
    /\ last.status = "ok"
    /\ last.image = <<[Rect |-> SampleRegion]>>

SetMin(S) == CHOOSE x \in S : \A y \in S : x <= y

SetMax(S) == CHOOSE x \in S : \A y \in S : x >= y

\* The smallest rectangle that contains every rectangle of d.
BoundingBox(d) ==
    LET I == 1..Len(d)
    IN [Min |-> Pt(SetMin({d[i].Min.X : i \in I}), SetMin({d[i].Min.Y : i \in I})),
        Max |-> Pt(SetMax({d[i].Max.X : i \in I}), SetMax({d[i].Max.Y : i \in I}))]

\* C7: Capture with no region and monitor -1 over a non-empty display
\* list makes exactly one rectangle capture, of the smallest rectangle that
\* contains the bounds of every display.
AllMonitorsCapturesBoundingBox ==
    (last.op = "Capture" /\ last.opts.Region = <<>> /\ last.opts.Monitor = -1
        /\ Len(last.displaysAt) > 0) =>
        /\ last.enumCalls = 1
        /\ last.rectCalls = <<BoundingBox(last.displaysAt)>>
        /\ last.status = IF last.capOK THEN "ok" ELSE "capture error"
        /\ last.capOK => last.image = <<[Rect |-> BoundingBox(last.displaysAt)]>>

\* C7 witness: the two 1920x1080 monitors side by side are captured as
\* the one rectangle (0,0)-(3840,1080).
AllMonitorsWitness ==
    /\ last.op = "Capture"
    /\ last.opts.Monitor = -1
    /\ last.displaysAt = ExampleDisplays
    /\ last.rectCalls = <<ImageRect(0, 0, 3840, 1080)>>
    /\ last.status = "ok"

\* C8: Capture with no region and a monitor index other than -1 captures
\* exactly that display's bounds when the index is in 0..n-1; any other
\* index fails with "monitor out of range", carrying the index and the
\* range 0..n-1, without a rectangle capture; with no display at all it
\* fails with "no active displays found".
OneMonitorCapturesItsBounds ==
    (last.op = "Capture" /\ last.opts.Region = <<>> /\ last.opts.Monitor # -1) =>
        LET n == Len(last.displaysAt)
            m == last.opts.Monitor
        IN IF n = 0
           THEN last.status = "no active displays found" /\ last.rectCalls = <<>>
           ELSE IF 0 <= m /\ m <= n - 1
           THEN /\ last.rectCalls = <<last.displaysAt[m + 1]>>
                /\ last.status = IF last.capOK THEN "ok" ELSE "capture error"
                /\ last.capOK => last.image = <<[Rect |-> last.displaysAt[m + 1]]>>
                /\ last.errRange = <<>>
           ELSE /\ last.status = "monitor out of range"
                /\ last.errRange = <<m, 0, n - 1>>
                /\ last.rectCalls = <<>>
                /\ last.image = <<>>

\* C8 witness: monitor 5 over two displays is refused with range 0..1.
OneMonitorWitness ==
    /\ last.op = "Capture"
    /\ last.opts.Monitor = 5
    /\ Len(last.displaysAt) = 2
    /\ last.status = "monitor out of range"
    /\ last.errRange = <<5, 0, 1>>

PipelineOrder ==
    <<"GetStrategy", "Capture", "MkdirAll", "Create", "Encode", "Close">>

Rank(name) == CHOOSE i \in 1..Len(PipelineOrder) : PipelineOrder[i] = name

\* C10: CaptureToFile runs the steps select strategy, capture, ensure
\* directory, create file, encode, release handle each at most once and in
\* that order; a failed step ends the call (only the release of an opened
\* handle may follow it); a handle that was opened is released; and the
\* call returns nil exactly when no step reported a failure.
PipelineReportsEveryFailure ==
    file.op = "CaptureToFile" =>
        LET st == file.steps
            I  == 1..Len(st)
        IN /\ \A i, j \in I : i < j => Rank(st[i].name) < Rank(st[j].name)
           /\ \A i, j \in I : (i < j /\ ~st[i].ok) => st[j].name = "Close"
           /\ (\E i \in I : st[i].name = "Create" /\ st[i].ok)
                  => \E j \in I : st[j].name = "Close"
           /\ (file.err = "") <=> (\A i \in I : st[i].ok)

\* C2: when two Capture calls that each set DISPLAY have both returned,
\* DISPLAY is what it was before either started, and the value each call
\* saved as the prior one is that same value, not the other's override.
ConcurrentCapturesRestoreDisplay ==
    (\A g \in Goroutines : gor[g].pc = "done" /\ gor[g].restore) =>
        /\ env = env0
        /\ \A g \in Goroutines : gor[g].tmp = Getenv(env0)

\* C6: a region that reaches the Capturer has positive width and height:
\* for every --region text, a text that is not four integers, or whose
\* width or height is zero or negative, ends the run with "invalid region"
\* before anything is handed to the Capturer or captured; an accepted text
\* hands over, and captures, exactly the rectangle with origin (x, y) and
\* size (width, height).
RegionIsValidatedBeforeCapture ==
    (cli.phase = "exited" /\ cli.fields # <<>>) =>
        LET fs    == cli.fields
            valid == /\ Len(fs) = 4
                     /\ \A i \in 1..4 : fs[i].num # <<>>
                     /\ fs[3].num[1] > 0
                     /\ fs[4].num[1] > 0
            rect  == [Min |-> Pt(fs[1].num[1], fs[2].num[1]),
                      Max |-> Pt(fs[1].num[1] + fs[3].num[1],
                                 fs[2].num[1] + fs[4].num[1])]
        IN IF valid
           THEN /\ cli.err # "invalid region"
                /\ cli.coreRegion = <<rect>>
                /\ cli.rectCalls \in {<<>>, <<rect>>}
           ELSE /\ cli.err = "invalid region"
                /\ cli.coreRegion = <<>>
                /\ cli.rectCalls = <<>>

ExpectedPng(level) ==
    CASE level = 0 -> "NoCompression"
      [] level = 1 -> "BestSpeed"
      [] level = 2 -> "DefaultCompression"
      [] level = 3 -> "BestCompression"

\* C9 as claimed: levels 0, 1, 2, 3 are None, Fast, Balanced, Best and any
\* other level is Fast; a run encodes with None for -r, Fast for no flag
\* and for -c, Balanced for -cc, Best for -ccc, and Fast for any count
\* outside 0..3.
CompressionLevelAsClaimed ==
    /\ \A l \in CountInputs :
           intToCompressionLevel(l) =
               IF l \in 0..3 THEN ExpectedPng(l) ELSE "BestSpeed"
    /\ (cli.phase = "exited" /\ cli.pngLevel # <<>>) =>
           cli.pngLevel =
               <<IF cli.flags.raw THEN "NoCompression"
                 ELSE IF cli.flags.compressLevel \in {0, 1} THEN "BestSpeed"
                 ELSE IF cli.flags.compressLevel = 2 THEN "DefaultCompression"
                 ELSE IF cli.flags.compressLevel = 3 THEN "BestCompression"
                 ELSE "BestSpeed">>

\* C9 as amended: the same, except that a count above three is Best (the
\* command caps the count at three); a negative count is Fast.
CompressionLevelMapping ==
    /\ \A l \in CountInputs :
           intToCompressionLevel(l) =
               IF l \in 0..3 THEN ExpectedPng(l) ELSE "BestSpeed"
    /\ (cli.phase = "exited" /\ cli.pngLevel # <<>>) =>
           cli.pngLevel =
               <<IF cli.flags.raw THEN "NoCompression"
                 ELSE IF cli.flags.compressLevel \in {0, 1} THEN "BestSpeed"
                 ELSE IF cli.flags.compressLevel = 2 THEN "DefaultCompression"
                 ELSE IF cli.flags.compressLevel >= 3 THEN "BestCompression"
                 ELSE "BestSpeed">>

\* C9 witness: a run with -cccc wrote its file with the best compression.
CompressionLevelWitness ==
    /\ cli.phase = "exited"
    /\ ~cli.flags.raw
    /\ cli.flags.compressLevel = 4
    /\ cli.err = ""
    /\ cli.pngLevel = <<"BestCompression">>

====
